---- MODULE Spec2Model ----
(***************************************************************************)
(* Picks: fundamental scoring (src/Picks.py) and the monthly-contribution  *)
(* backtest (src/Backtest.py).                                             *)
(*                                                                         *)
(* Numbers are exact rationals <<n, d>> with d > 0; <<0, 0>> is the float  *)
(* NaN; << >> is Python's None.  Float rounding is not modelled.           *)
(***************************************************************************)
EXTENDS Integers, Sequences, FiniteSets, TLC

VARIABLES
    pc,              \* which script runs and where it stands
    \* Picks.py main
    pesos,           \* criterion weights chosen in the sidebar
    dados,           \* the record carregar_dados_acao returned last
    resultados,      \* list of analysed stocks (append-only)
    \* Backtest.py
    n_datas,         \* len(datas_aporte)
    mes,             \* rebalance dates processed so far
    carteira,        \* ticker -> shares held
    valor_carteira,  \* recorded portfolio value, one entry per date
    historico_pesos, \* recorded target weights, one entry per date
    ibov_qtd,        \* benchmark units held
    ibov_patrimonio, \* recorded benchmark value, one entry per date
    pontuacoes,      \* loop local: ticker -> score, of the last date
    selecionados,    \* loop local: selected tickers of the last date
    precos,          \* loop local: ticker -> price used at the last date
    preco_ibov,      \* loop local: benchmark price of the last date
    mercado,         \* environment: the prices served so far, one entry per date
    cagr_carteira,   \* sign of the portfolio CAGR once computed
    cagr_ibov,       \* sign of the benchmark CAGR once computed
    \* Picks.py analisar_carteira_para_aporte
    dados_acoes,     \* <<ticker, cached data>> of the tickers to analyse, in list order
    carteira_atual,  \* ticker -> percentage of the current portfolio
    perfil,          \* investor profile chosen in the sidebar
    cenario,         \* macroeconomic scenario chosen in the sidebar
    analise,         \* what the call returned, None before it
    reanalise,       \* what a second call on the same arguments returned
    \* coleta_dados_melhorado.py obter_lista_acoes
    limite,              \* argument: None or an int
    incluir_small_caps,  \* argument
    incluir_mid_caps,    \* argument
    ibov_components,     \* environment: what yfinance answers
    acoes                \* the returned list, None before the return

varsPicks == <<pesos, dados, resultados>>
varsBacktest ==
    <<n_datas, mes, carteira, valor_carteira, historico_pesos, ibov_qtd,
      ibov_patrimonio, pontuacoes, selecionados, precos, preco_ibov, mercado,
      cagr_carteira, cagr_ibov>>
varsAporte == <<dados_acoes, carteira_atual, perfil, cenario, analise, reanalise>>
varsLista == <<limite, incluir_small_caps, incluir_mid_caps, ibov_components, acoes>>
vars == <<pc, varsPicks, varsBacktest, varsAporte, varsLista>>

-----------------------------------------------------------------------------
(* Numbers *)

None == << >>
NaN == <<0, 0>>
IsNaN(x) == x[2] = 0
Num(n) == <<n, 1>>

RECURSIVE MDC(_, _)
MDC(a, b) == IF b = 0 THEN a ELSE MDC(b, a % b)
Abs(n) == IF n < 0 THEN -n ELSE n
\* n / d in lowest terms, d # 0
Frac(n, d) ==
    LET g == MDC(Abs(n), Abs(d))
    IN  IF d < 0 THEN <<(-n) \div g, (-d) \div g>> ELSE <<n \div g, d \div g>>

RMul(a, b) == IF IsNaN(a) \/ IsNaN(b) THEN NaN ELSE Frac(a[1] * b[1], a[2] * b[2])
RAdd(a, b) == IF IsNaN(a) \/ IsNaN(b) THEN NaN ELSE Frac(a[1] * b[2] + b[1] * a[2], a[2] * b[2])
RSub(a, b) == IF IsNaN(a) \/ IsNaN(b) THEN NaN ELSE Frac(a[1] * b[2] - b[1] * a[2], a[2] * b[2])
\* float division: 0/0 is NaN (x/0 with x # 0 does not arise here)
RDiv(a, b) ==
    IF IsNaN(a) \/ IsNaN(b) \/ b[1] = 0 THEN NaN ELSE Frac(a[1] * b[2], a[2] * b[1])
\* comparisons with NaN are false, as in IEEE 754
RLt(a, b) == ~IsNaN(a) /\ ~IsNaN(b) /\ a[1] * b[2] < b[1] * a[2]
RGt(a, b) == RLt(b, a)
RLe(a, b) == ~IsNaN(a) /\ ~IsNaN(b) /\ a[1] * b[2] <= b[1] * a[2]
RGe(a, b) == RLe(b, a)
REq(a, b) == ~IsNaN(a) /\ ~IsNaN(b) /\ a[1] * b[2] = b[1] * a[2]
IsZero(a) == ~IsNaN(a) /\ a[1] = 0

\* {}
EmptyDict == [k \in {} |-> None]

\* Python truthiness of a number or None
Truthy(v) == v # None /\ (IsNaN(v) \/ v[1] # 0)
\* dict.get(k, default)
Get(d, k, default) == IF k \in DOMAIN d THEN d[k] ELSE default
\* (x or 0)
OrZero(v) == IF Truthy(v) THEN v ELSE Num(0)

-----------------------------------------------------------------------------
(* Picks.py: calcular_metricas_fundamentalistas *)

Criterios ==
    {"ROE", "ROIC", "MargemLiquida", "CrescimentoLucros", "PL", "PVP",
     "EV_EBITDA", "DividendYield", "DividaPatrimonio", "LiquidezCorrente",
     "Payout"}

HasAny(item, keys) == \E i \in 1..Len(keys) : keys[i] \in DOMAIN item

\* item.get(k1, item.get(k2, ...)): the first key of keys the item holds
GetFirst(item, keys) ==
    IF HasAny(item, keys)
    THEN item[keys[CHOOSE i \in 1..Len(keys) :
                   /\ keys[i] \in DOMAIN item
                   /\ \A j \in 1..(i - 1) : keys[j] \notin DOMAIN item]]
    ELSE None

\* for item in lista: if <keys> in item: value = item.get(...); break
Procurar(lista, keys) ==
    IF \E i \in 1..Len(lista) : HasAny(lista[i], keys)
    THEN GetFirst(lista[CHOOSE i \in 1..Len(lista) :
                        /\ HasAny(lista[i], keys)
                        /\ \A j \in 1..(i - 1) : ~HasAny(lista[j], keys)], keys)
    ELSE None

\* for item in lista: update a and b from the item; break once both are set
RECURSIVE Procurar2(_, _, _, _, _, _)
Procurar2(lista, i, keysA, keysB, a, b) ==
    IF i > Len(lista) THEN <<a, b>>
    ELSE LET a2 == IF HasAny(lista[i], keysA) THEN GetFirst(lista[i], keysA) ELSE a
             b2 == IF HasAny(lista[i], keysB) THEN GetFirst(lista[i], keysB) ELSE b
         IN  IF a2 # None /\ b2 # None THEN <<a2, b2>>
             ELSE Procurar2(lista, i + 1, keysA, keysB, a2, b2)

metrica_ROE(info, income_stmt, balance) ==
    IF /\ "netIncome" \in DOMAIN info
       /\ "totalStockholderEquity" \in DOMAIN info
       /\ ~IsZero(info["totalStockholderEquity"])
    THEN RMul(RDiv(info["netIncome"], info["totalStockholderEquity"]), Num(100))
    ELSE IF "returnOnEquity" \in DOMAIN info
    THEN RMul(info["returnOnEquity"], Num(100))
    ELSE IF Len(income_stmt) > 0 /\ Len(balance) > 0
    THEN LET lucro_liquido == Procurar(income_stmt, <<"Net Income", "NetIncome">>)
             patrimonio_liquido ==
                 Procurar(balance, <<"Total Stockholder Equity", "TotalStockholderEquity">>)
         IN  IF /\ lucro_liquido # None
                /\ patrimonio_liquido # None
                /\ ~IsZero(patrimonio_liquido)
             THEN RMul(RDiv(lucro_liquido, patrimonio_liquido), Num(100))
             ELSE None
    ELSE None

\* ebit * (1 - 0.34) / capital_investido * 100
ROIC_de(ebit, capital_investido) ==
    RMul(RDiv(RMul(ebit, Frac(66, 100)), capital_investido), Num(100))

metrica_ROIC(info, income_stmt, balance) ==
    IF /\ "ebit" \in DOMAIN info
       /\ "totalAssets" \in DOMAIN info
       /\ "totalCurrentLiabilities" \in DOMAIN info
    THEN LET capital_investido == RSub(info["totalAssets"], info["totalCurrentLiabilities"])
         IN  IF ~IsZero(capital_investido)
             THEN ROIC_de(info["ebit"], capital_investido)
             ELSE None
    ELSE IF Len(income_stmt) > 0 /\ Len(balance) > 0
    THEN LET ebit == Procurar(income_stmt, <<"EBIT", "OperatingIncome">>)
             ab == Procurar2(balance, 1, <<"Total Assets", "TotalAssets">>,
                             <<"Total Current Liabilities", "TotalCurrentLiabilities">>,
                             None, None)
         IN  IF ebit # None /\ ab[1] # None /\ ab[2] # None
             THEN LET capital_investido == RSub(ab[1], ab[2])
                  IN  IF ~IsZero(capital_investido)
                      THEN ROIC_de(ebit, capital_investido)
                      ELSE None
             ELSE None
    ELSE None

metrica_MargemLiquida(info, income_stmt) ==
    IF /\ "netIncome" \in DOMAIN info
       /\ "totalRevenue" \in DOMAIN info
       /\ ~IsZero(info["totalRevenue"])
    THEN RMul(RDiv(info["netIncome"], info["totalRevenue"]), Num(100))
    ELSE IF "profitMargins" \in DOMAIN info
    THEN RMul(info["profitMargins"], Num(100))
    ELSE IF Len(income_stmt) > 0
    THEN LET lr == Procurar2(income_stmt, 1, <<"Net Income", "NetIncome">>,
                             <<"Total Revenue", "TotalRevenue">>, None, None)
         IN  IF lr[1] # None /\ lr[2] # None /\ ~IsZero(lr[2])
             THEN RMul(RDiv(lr[1], lr[2]), Num(100))
             ELSE None
    ELSE None

metrica_DividendYield(info) ==
    IF Truthy(Get(info, "dividendYield", None))
    THEN RMul(Get(info, "dividendYield", Num(0)), Num(100))
    ELSE Num(0)

metrica_DividaPatrimonio(info, balance) ==
    IF /\ "totalDebt" \in DOMAIN info
       /\ "totalStockholderEquity" \in DOMAIN info
       /\ ~IsZero(info["totalStockholderEquity"])
    THEN RDiv(info["totalDebt"], info["totalStockholderEquity"])
    ELSE IF "debtToEquity" \in DOMAIN info
    THEN RDiv(info["debtToEquity"], Num(100))
    ELSE IF Len(balance) > 0
    THEN LET dp == Procurar2(balance, 1, <<"Total Debt", "TotalDebt", "Long Term Debt">>,
                             <<"Total Stockholder Equity", "TotalStockholderEquity">>,
                             None, None)
         IN  IF dp[1] # None /\ dp[2] # None /\ ~IsZero(dp[2])
             THEN RDiv(dp[1], dp[2])
             ELSE None
    ELSE None

\* metrica_LiquidezCorrente without the "!= 0" test on the denominator
metrica_LiquidezCorrente_m(info) ==
    IF /\ "totalCurrentAssets" \in DOMAIN info
       /\ "totalCurrentLiabilities" \in DOMAIN info
    THEN RDiv(info["totalCurrentAssets"], info["totalCurrentLiabilities"])
    ELSE None

metrica_LiquidezCorrente(info) ==
    IF /\ "totalCurrentAssets" \in DOMAIN info
       /\ "totalCurrentLiabilities" \in DOMAIN info
       /\ ~IsZero(info["totalCurrentLiabilities"])
    THEN RDiv(info["totalCurrentAssets"], info["totalCurrentLiabilities"])
    ELSE None

metrica_CrescimentoLucros(info) ==
    IF "earningsGrowth" \in DOMAIN info
    THEN IF Truthy(info["earningsGrowth"])
         THEN RMul(info["earningsGrowth"], Num(100))
         ELSE None
    ELSE None

metrica_Payout(info) ==
    IF "payoutRatio" \in DOMAIN info
    THEN IF Truthy(info["payoutRatio"])
         THEN RMul(info["payoutRatio"], Num(100))
         ELSE Num(0)
    ELSE Num(0)

calcular_metricas_fundamentalistas(d) ==
    LET info == Get(d, "info", EmptyDict)
        income_stmt == Get(d, "income_statement", << >>)
        balance == Get(d, "balance_sheet", << >>)
    IN  [ROE |-> metrica_ROE(info, income_stmt, balance),
         ROIC |-> metrica_ROIC(info, income_stmt, balance),
         MargemLiquida |-> metrica_MargemLiquida(info, income_stmt),
         PL |-> Get(info, "trailingPE", None),
         PVP |-> Get(info, "priceToBook", None),
         EV_EBITDA |-> Get(info, "enterpriseToEbitda", None),
         DividendYield |-> metrica_DividendYield(info),
         DividaPatrimonio |-> metrica_DividaPatrimonio(info, balance),
         LiquidezCorrente |-> metrica_LiquidezCorrente(info),
         CrescimentoLucros |-> metrica_CrescimentoLucros(info),
         Payout |-> metrica_Payout(info)]

-----------------------------------------------------------------------------
(* Picks.py: calcular_pontuacao *)

\* pontuacao_ROE with a top rung above the scale
pontuacao_ROE_m(roe) ==
    IF RGt(roe, Num(15)) THEN 12
    ELSE IF RGt(roe, Num(12)) THEN 8
    ELSE IF RGt(roe, Num(10)) THEN 6
    ELSE IF RGt(roe, Num(5)) THEN 4
    ELSE IF RGt(roe, Num(0)) THEN 2
    ELSE 0

pontuacao_ROE(roe) ==
    IF RGt(roe, Num(15)) THEN 10
    ELSE IF RGt(roe, Num(12)) THEN 8
    ELSE IF RGt(roe, Num(10)) THEN 6
    ELSE IF RGt(roe, Num(5)) THEN 4
    ELSE IF RGt(roe, Num(0)) THEN 2
    ELSE 0

pontuacao_ROIC(roic) ==
    IF RGt(roic, Num(12)) THEN 10
    ELSE IF RGt(roic, Num(10)) THEN 8
    ELSE IF RGt(roic, Num(7)) THEN 6
    ELSE IF RGt(roic, Num(5)) THEN 4
    ELSE IF RGt(roic, Num(0)) THEN 2
    ELSE 0

pontuacao_MargemLiquida(margem) ==
    IF RGt(margem, Num(20)) THEN 10
    ELSE IF RGt(margem, Num(15)) THEN 8
    ELSE IF RGt(margem, Num(10)) THEN 6
    ELSE IF RGt(margem, Num(5)) THEN 4
    ELSE IF RGt(margem, Num(0)) THEN 2
    ELSE 0

pontuacao_CrescimentoLucros(crescimento) ==
    IF RGt(crescimento, Num(15)) THEN 10
    ELSE IF RGt(crescimento, Num(10)) THEN 8
    ELSE IF RGt(crescimento, Num(5)) THEN 6
    ELSE IF RGt(crescimento, Num(0)) THEN 4
    ELSE IF RGt(crescimento, Num(-5)) THEN 2
    ELSE 0

\* pontuacao_PL with the two best rungs swapped
pontuacao_PL_m(pl) ==
    IF RLt(pl, Num(0)) THEN 0
    ELSE IF RLt(pl, Num(10)) THEN 8
    ELSE IF RLt(pl, Num(15)) THEN 10
    ELSE IF RLt(pl, Num(20)) THEN 6
    ELSE IF RLt(pl, Num(25)) THEN 4
    ELSE IF RLt(pl, Num(30)) THEN 2
    ELSE 0

pontuacao_PL(pl) ==
    IF RLt(pl, Num(0)) THEN 0
    ELSE IF RLt(pl, Num(10)) THEN 10
    ELSE IF RLt(pl, Num(15)) THEN 8
    ELSE IF RLt(pl, Num(20)) THEN 6
    ELSE IF RLt(pl, Num(25)) THEN 4
    ELSE IF RLt(pl, Num(30)) THEN 2
    ELSE 0

pontuacao_PVP(pvp) ==
    IF RLt(pvp, Num(0)) THEN 0
    ELSE IF RLt(pvp, Num(1)) THEN 10
    ELSE IF RLt(pvp, Frac(15, 10)) THEN 8
    ELSE IF RLt(pvp, Num(2)) THEN 6
    ELSE IF RLt(pvp, Frac(25, 10)) THEN 4
    ELSE IF RLt(pvp, Num(3)) THEN 2
    ELSE 0

pontuacao_EV_EBITDA(ev_ebitda) ==
    IF RLt(ev_ebitda, Num(0)) THEN 0
    ELSE IF RLt(ev_ebitda, Num(6)) THEN 10
    ELSE IF RLt(ev_ebitda, Num(8)) THEN 8
    ELSE IF RLt(ev_ebitda, Num(10)) THEN 6
    ELSE IF RLt(ev_ebitda, Num(12)) THEN 4
    ELSE IF RLt(ev_ebitda, Num(15)) THEN 2
    ELSE 0

pontuacao_DividendYield(dy) ==
    IF RGt(dy, Num(5)) THEN 10
    ELSE IF RGt(dy, Num(4)) THEN 8
    ELSE IF RGt(dy, Num(3)) THEN 6
    ELSE IF RGt(dy, Num(2)) THEN 4
    ELSE IF RGt(dy, Num(1)) THEN 2
    ELSE 0

pontuacao_DividaPatrimonio(div_pat) ==
    IF RLt(div_pat, Num(0)) THEN 0
    ELSE IF RLt(div_pat, Frac(5, 10)) THEN 10
    ELSE IF RLt(div_pat, Num(1)) THEN 8
    ELSE IF RLt(div_pat, Frac(15, 10)) THEN 6
    ELSE IF RLt(div_pat, Num(2)) THEN 4
    ELSE IF RLt(div_pat, Num(3)) THEN 2
    ELSE 0

pontuacao_LiquidezCorrente(liq_cor) ==
    IF RGt(liq_cor, Num(2)) THEN 10
    ELSE IF RGt(liq_cor, Frac(15, 10)) THEN 8
    ELSE IF RGt(liq_cor, Frac(12, 10)) THEN 6
    ELSE IF RGt(liq_cor, Num(1)) THEN 4
    ELSE IF RGt(liq_cor, Frac(8, 10)) THEN 2
    ELSE 0

\* pontuacao_Payout with the score of the ideal range on the last rung
pontuacao_Payout_m(payout) ==
    IF RLt(payout, Num(0)) THEN 0
    ELSE IF RLt(payout, Num(30)) THEN 6
    ELSE IF RLt(payout, Num(50)) THEN 8
    ELSE IF RLt(payout, Num(70)) THEN 10
    ELSE IF RLt(payout, Num(90)) THEN 6
    ELSE IF RLt(payout, Num(100)) THEN 4
    ELSE 10

pontuacao_Payout(payout) ==
    IF RLt(payout, Num(0)) THEN 0
    ELSE IF RLt(payout, Num(30)) THEN 6
    ELSE IF RLt(payout, Num(50)) THEN 8
    ELSE IF RLt(payout, Num(70)) THEN 10
    ELSE IF RLt(payout, Num(90)) THEN 6
    ELSE IF RLt(payout, Num(100)) THEN 4
    ELSE 2

\* the sub-score of criterion c for the raw value v
SubPontuacao(c, v) ==
    CASE c = "ROE" -> pontuacao_ROE(v)
      [] c = "ROIC" -> pontuacao_ROIC(v)
      [] c = "MargemLiquida" -> pontuacao_MargemLiquida(v)
      [] c = "CrescimentoLucros" -> pontuacao_CrescimentoLucros(v)
      [] c = "PL" -> pontuacao_PL(v)
      [] c = "PVP" -> pontuacao_PVP(v)
      [] c = "EV_EBITDA" -> pontuacao_EV_EBITDA(v)
      [] c = "DividendYield" -> pontuacao_DividendYield(v)
      [] c = "DividaPatrimonio" -> pontuacao_DividaPatrimonio(v)
      [] c = "LiquidezCorrente" -> pontuacao_LiquidezCorrente(v)
      [] c = "Payout" -> pontuacao_Payout(v)

RECURSIVE SomaSobre(_, _)
SomaSobre(S, f) ==
    IF S = {} THEN 0
    ELSE LET x == CHOOSE y \in S : TRUE IN f[x] + SomaSobre(S \ {x}, f)

\* pontuacao_final = pontuacao_total / peso_total if peso_total > 0 else 0
pontuacao_final_de(pontuacao_total, peso_total) ==
    IF peso_total > 0 THEN Frac(pontuacao_total, peso_total) ELSE Num(0)

\* metricas: a dict (keys absent or None are skipped); returns the pair
\* (pontuacao, pontuacao_final) as a record, with the two running sums
calcular_pontuacao(metricas, p) ==
    LET presentes == {c \in Criterios : Get(metricas, c, None) # None}
        pontuacao == [c \in presentes |-> SubPontuacao(c, metricas[c])]
        pontuacao_total == SomaSobre(presentes, [c \in presentes |-> pontuacao[c] * p[c]])
        peso_total == SomaSobre(presentes, [c \in presentes |-> p[c]])
    IN  [pontuacao |-> pontuacao,
         pontuacao_total |-> pontuacao_total,
         peso_total |-> peso_total,
         pontuacao_final |-> pontuacao_final_de(pontuacao_total, peso_total)]

obter_pesos_padrao ==
    [ROE |-> 6, ROIC |-> 6, MargemLiquida |-> 7, CrescimentoLucros |-> 6,
     PL |-> 7, PVP |-> 5, EV_EBITDA |-> 5, DividendYield |-> 3,
     DividaPatrimonio |-> 7, LiquidezCorrente |-> 5, Payout |-> 3]

-----------------------------------------------------------------------------
(* Picks.py: classificar_acao; the list of labels in the order appended *)

MelhoresAcoes == "Melhores Acoes Brasileiras"
EmpresasSolidas == "Empresas Solidas"
AcoesDefensivas == "Acoes Defensivas"
AcoesBaratas == "Acoes Baratas"
PotencialModerado == "Potencial Moderado"
BaixoPotencial == "Baixo Potencial"

\* (metricas.get(c, 0) or 0)
MetricaOuZero(metricas, c) == OrZero(Get(metricas, c, Num(0)))

\* line 718 with "or" for "and"
EmpresasSolidas_se_m(metricas) ==
    \/ RGt(MetricaOuZero(metricas, "ROE"), Num(10))
    \/ RLt(MetricaOuZero(metricas, "DividaPatrimonio"), Frac(15, 10))

\* line 718
EmpresasSolidas_se(metricas) ==
    /\ RGt(MetricaOuZero(metricas, "ROE"), Num(10))
    /\ RLt(MetricaOuZero(metricas, "DividaPatrimonio"), Frac(15, 10))

\* line 726 without the "> 0" tests
AcoesBaratas_se_m(metricas) ==
    \/ RLt(MetricaOuZero(metricas, "PL"), Num(15))
    \/ RLt(MetricaOuZero(metricas, "PVP"), Frac(15, 10))

\* line 726
AcoesBaratas_se(metricas) ==
    \/ /\ RLt(MetricaOuZero(metricas, "PL"), Num(15))
       /\ RGt(MetricaOuZero(metricas, "PL"), Num(0))
    \/ /\ RLt(MetricaOuZero(metricas, "PVP"), Frac(15, 10))
       /\ RGt(MetricaOuZero(metricas, "PVP"), Num(0))

\* lines 730-734 run whenever the score is below 7, whatever was appended
categoria_residual_m(pontuacao_final, categorias) ==
    IF RLt(pontuacao_final, Num(7))
    THEN IF RGe(pontuacao_final, Num(5))
         THEN categorias \o <<PotencialModerado>>
         ELSE categorias \o <<BaixoPotencial>>
    ELSE categorias

\* lines 730-734: "if not categorias: ..."
categoria_residual(pontuacao_final, categorias) ==
    IF categorias = << >>
    THEN IF RGe(pontuacao_final, Num(5))
         THEN <<PotencialModerado>>
         ELSE <<BaixoPotencial>>
    ELSE categorias

\* classificar_acao with "or" for "and" in the Acoes Defensivas test
classificar_acao_m(pontuacao_final, metricas) ==
    LET c1 == IF RGe(pontuacao_final, Num(7)) THEN <<MelhoresAcoes>> ELSE << >>
        c2 == IF EmpresasSolidas_se(metricas) THEN <<EmpresasSolidas>> ELSE << >>
        c3 == IF \/ RGt(MetricaOuZero(metricas, "DividendYield"), Num(3))
                 \/ RLt(MetricaOuZero(metricas, "Payout"), Num(80))
              THEN <<AcoesDefensivas>> ELSE << >>
        c4 == IF AcoesBaratas_se(metricas) THEN <<AcoesBaratas>> ELSE << >>
    IN  categoria_residual(pontuacao_final, c1 \o c2 \o c3 \o c4)

classificar_acao(pontuacao_final, metricas) ==
    LET c1 == IF RGe(pontuacao_final, Num(7)) THEN <<MelhoresAcoes>> ELSE << >>
        c2 == IF EmpresasSolidas_se(metricas) THEN <<EmpresasSolidas>> ELSE << >>
        c3 == IF /\ RGt(MetricaOuZero(metricas, "DividendYield"), Num(3))
                 /\ RLt(MetricaOuZero(metricas, "Payout"), Num(80))
              THEN <<AcoesDefensivas>> ELSE << >>
        c4 == IF AcoesBaratas_se(metricas) THEN <<AcoesBaratas>> ELSE << >>
    IN  categoria_residual(pontuacao_final, c1 \o c2 \o c3 \o c4)

-----------------------------------------------------------------------------
(* Picks.py main: the analysis loop over the stocks to analyse.           *)
(* Inputs: the cached record of each stock is drawn from DadosBase for the *)
(* first stock; each later stock's record differs from the previous one in *)
(* one key of its info dict.                                               *)

\* number of stocks analysed in one run
MaxAcoes == 2

Pct(S) == {Frac(n, 100) : n \in S}
Ints(S) == {Num(n) : n \in S}

CamposInfo ==
    {"netIncome", "totalStockholderEquity", "returnOnEquity", "ebit",
     "totalAssets", "totalCurrentLiabilities", "totalRevenue", "profitMargins",
     "trailingPE", "priceToBook", "enterpriseToEbitda", "dividendYield",
     "totalDebt", "debtToEquity", "totalCurrentAssets", "earningsGrowth",
     "payoutRatio"}

\* values tried for each key: one in every bucket of the step function it
\* drives, the thresholds themselves included
ValoresCampo(f) ==
    CASE f = "returnOnEquity" -> Pct({-5, 0, 5, 10, 12, 15, 16})
      [] f = "profitMargins" -> Pct({-5, 0, 5, 10, 15, 20, 21})
      [] f = "earningsGrowth" -> Pct({-10, -5, 0, 5, 10, 15, 16})
      [] f = "dividendYield" -> {Frac(n, 1000) : n \in {0, 10, 20, 30, 31, 40, 50, 51}}
      [] f = "payoutRatio" -> Pct({-10, 0, 30, 50, 70, 80, 90, 100})
      [] f = "trailingPE" -> Ints({-1, 0, 10, 15, 20, 25, 30})
      [] f = "priceToBook" -> {Frac(n, 10) : n \in {-5, 0, 10, 15, 20, 25, 30}}
      [] f = "enterpriseToEbitda" -> Ints({-1, 0, 6, 8, 10, 12, 15})
      [] f = "debtToEquity" -> Ints({-10, 0, 50, 100, 150, 200, 300})
      [] f = "totalCurrentAssets" -> Ints({80, 100, 120, 150, 200, 201})
      [] f = "ebit" -> Ints({-10, 0, 5, 8, 11, 16, 19})
      [] f \in {"netIncome", "totalDebt"} -> Ints({-50, 0, 100})
      [] f \in {"totalStockholderEquity", "totalRevenue"} -> Ints({-50, 0, 100})
      [] f \in {"totalAssets", "totalCurrentLiabilities"} -> Ints({0, 100})

InfoVazio == [info |-> EmptyDict]

\* {ROE: 20, DividaPatrimonio: 0.3, PL: 8, DividendYield: 2, Payout: 50}
InfoCenario ==
    [info |-> [returnOnEquity |-> Frac(20, 100), debtToEquity |-> Num(30),
               trailingPE |-> Num(8), dividendYield |-> Frac(2, 100),
               payoutRatio |-> Frac(50, 100)]]

\* every criterion present
InfoCompleto(roe, ebit, margem, cresc, pl, pvp, ev, dy, de, ac, payout) ==
    [info |-> [returnOnEquity |-> Frac(roe, 100), ebit |-> Num(ebit),
               totalAssets |-> Num(200), totalCurrentLiabilities |-> Num(100),
               profitMargins |-> Frac(margem, 100),
               earningsGrowth |-> Frac(cresc, 100), trailingPE |-> Num(pl),
               priceToBook |-> Frac(pvp, 10), enterpriseToEbitda |-> Num(ev),
               dividendYield |-> Frac(dy, 100), debtToEquity |-> Num(de),
               totalCurrentAssets |-> Num(ac), payoutRatio |-> Frac(payout, 100)]]

InfoBom == InfoCompleto(20, 30, 25, 20, 8, 8, 5, 6, 30, 250, 60)
InfoRuim == InfoCompleto(-5, -10, -5, -10, 40, 40, 20, 0, 400, 50, -10)
InfoMedio == InfoCompleto(11, 12, 12, 7, 17, 17, 9, 3, 120, 130, 40)

\* ratios computed from the statement amounts in info (method 1)
InfoValores ==
    [info |-> [netIncome |-> Num(30), totalStockholderEquity |-> Num(100),
               totalRevenue |-> Num(200), totalDebt |-> Num(80),
               totalCurrentAssets |-> Num(150), totalCurrentLiabilities |-> Num(100)]]

\* ratios found in the statement lists (method 3)
InfoDemonstracoes ==
    [info |-> EmptyDict,
     income_statement |->
        <<("Total Revenue" :> Num(200)),
          ("Net Income" :> Num(30)) @@ ("EBIT" :> Num(50))>>,
     balance_sheet |->
        <<("Total Assets" :> Num(400)) @@ ("Long Term Debt" :> Num(80)),
          ("Total Current Liabilities" :> Num(100)) @@
          ("TotalStockholderEquity" :> Num(100))>>]

\* statement amounts in info with denominators that are 0, next to the
\* ratios reported directly
InfoValoresZero ==
    [info |-> [netIncome |-> Num(30), totalStockholderEquity |-> Num(0),
               totalRevenue |-> Num(0), totalDebt |-> Num(80),
               totalCurrentAssets |-> Num(150), totalCurrentLiabilities |-> Num(0),
               returnOnEquity |-> Frac(20, 100), profitMargins |-> Frac(10, 100),
               debtToEquity |-> Num(50)]]

\* statement lists whose denominators (equity, revenue, invested capital) are 0
InfoDemonstracoesZero ==
    [info |-> EmptyDict,
     income_statement |->
        <<("Total Revenue" :> Num(0)) @@ ("Net Income" :> Num(30)),
          ("EBIT" :> Num(50))>>,
     balance_sheet |->
        <<("Total Assets" :> Num(100)) @@ ("Total Debt" :> Num(80)) @@
          ("Total Current Liabilities" :> Num(100)) @@
          ("Total Stockholder Equity" :> Num(0))>>]

DadosBase ==
    {InfoVazio, InfoCenario, InfoBom, InfoRuim, InfoMedio, InfoValores,
     InfoDemonstracoes, InfoValoresZero, InfoDemonstracoesZero}

\* weight maps: the defaults, all zero, some zero, and one at the maximum
PesosSet ==
    {obter_pesos_padrao,
     [c \in Criterios |-> 0],
     [c \in Criterios |-> IF c \in {"ROE", "PL", "Payout"} THEN 0 ELSE 1],
     [c \in Criterios |-> IF c = "DividendYield" THEN 10 ELSE 1]}

\* d with info[f] set to v
ComCampo(d, f, v) ==
    [d EXCEPT !["info"] = [k \in DOMAIN d["info"] \cup {f} |->
                              IF k = f THEN v ELSE d["info"][k]]]
\* d with key f removed from info
SemCampo(d, f) ==
    [d EXCEPT !["info"] = [k \in DOMAIN d["info"] \ {f} |-> d["info"][k]]]

\* the records that differ from d in one key of info
Vizinhos(d) ==
    UNION {{ComCampo(d, f, v) : v \in ValoresCampo(f)} : f \in CamposInfo}
        \cup {SemCampo(d, f) : f \in DOMAIN d["info"]}

\* the backtest script is not running
BacktestParado ==
    /\ n_datas = 0 /\ mes = 0 /\ carteira = EmptyDict /\ valor_carteira = << >>
    /\ historico_pesos = << >> /\ ibov_qtd = 0 /\ ibov_patrimonio = << >>
    /\ pontuacoes = EmptyDict /\ selecionados = {} /\ precos = EmptyDict
    /\ preco_ibov = NaN /\ mercado = << >> /\ cagr_carteira = NaN
    /\ cagr_ibov = NaN

\* analisar_carteira_para_aporte has not been called
AporteParado ==
    /\ dados_acoes = << >> /\ carteira_atual = EmptyDict /\ perfil = None /\ cenario = None
    /\ analise = None /\ reanalise = None

\* obter_lista_acoes has not been called
ListaParada ==
    /\ limite = None /\ incluir_small_caps = TRUE /\ incluir_mid_caps = TRUE
    /\ ibov_components = None /\ acoes = None

\* one entry of resultados
Resultado(d, p) ==
    LET metricas == calcular_metricas_fundamentalistas(d)
        r == calcular_pontuacao(metricas, p)
    IN  [Metricas |-> metricas,
         Pontuacao |-> r.pontuacao,
         PontuacaoFinal |-> r.pontuacao_final,
         Categorias |-> classificar_acao(r.pontuacao_final, metricas)]

InitPicks ==
    /\ pc = "main"
    /\ pesos \in PesosSet
    /\ dados = None
    /\ resultados = << >>
    /\ BacktestParado
    /\ AporteParado
    /\ ListaParada

\* one iteration of "for i, ticker in enumerate(acoes)"
AnalisarAcao ==
    /\ pc = "main"
    /\ Len(resultados) < MaxAcoes
    /\ \E d \in (IF dados = None THEN DadosBase ELSE Vizinhos(dados)) :
          /\ dados' = d
          /\ resultados' = Append(resultados, Resultado(d, pesos))
    /\ UNCHANGED <<pc, pesos, varsBacktest, varsAporte, varsLista>>

NextPicks == AnalisarAcao

SpecPicks == InitPicks /\ [][NextPicks]_vars

-----------------------------------------------------------------------------
(* Backtest.py *)

valor_aporte == 1000
limite_porc_ativo == Frac(2, 10)
\* number of tickers head() keeps in the fallback selection
TopN == 5
\* F-Score cutoff
Corte == 6

\* the first tickers of the list
tickers == <<"AGRO3", "BBAS3", "BBSE3", "BPAC11", "EGIE3", "ITUB3">>
Tickers == {tickers[k] : k \in 1..Len(tickers)}

\* sum(...) of numbers; NaN propagates
RECURSIVE Soma(_, _)
Soma(S, f) ==
    IF S = {} THEN Num(0)
    ELSE LET x == CHOOSE y \in S : TRUE IN RAdd(f[x], Soma(S \ {x}, f))

\* Series.sum(): NaN entries are skipped
SomaSerie(S, f) == Soma({x \in S : ~IsNaN(f[x])}, f)

\* lines 58-65: score every ticker whose record could be loaded
AvaliarAtivos(cache) ==
    [t \in {u \in Tickers : cache[u] # None} |->
        calcular_pontuacao(calcular_metricas_fundamentalistas(cache[t]),
                           obter_pesos_padrao).pontuacao_final]

\* df_pont.head(n): the n best; the order among equal scores is the sort's
cabeca(pont, n) ==
    LET m == IF Cardinality(DOMAIN pont) < n THEN Cardinality(DOMAIN pont) ELSE n
    IN  {S \in SUBSET (DOMAIN pont) :
            /\ Cardinality(S) = m
            /\ \A a \in S, b \in (DOMAIN pont) \ S : RGe(pont[a], pont[b])}

\* lines 68-72: the sets of tickers the selection can return
Selecionar(pont) ==
    LET acima == {t \in DOMAIN pont : RGe(pont[t], Num(Corte))}
    IN  IF acima # {} THEN {acima} ELSE cabeca(pont, TopN)

\* Series.clip(upper=limite)
clip(w, upper) == IF RGt(w, upper) THEN upper ELSE w

\* lines 75-76
CalcularPesos(sel, pont) ==
    LET soma == SomaSerie(sel, pont)
        bruto == [t \in sel |-> clip(RDiv(pont[t], soma), limite_porc_ativo)]
        soma2 == SomaSerie(sel, bruto)
    IN  [t \in sel |-> RDiv(bruto[t], soma2)]

\* .ffill().iloc[-1] of one column of the month's window
RECURSIVE UltimoPreco(_)
UltimoPreco(janela) ==
    IF janela = << >> THEN NaN
    ELSE IF ~IsNaN(janela[Len(janela)]) THEN janela[Len(janela)]
    ELSE UltimoPreco(SubSeq(janela, 1, Len(janela) - 1))

\* max0 letting a negative amount through (a number is never clamped)
max0_m(x) == IF IsNaN(x) THEN Num(0) ELSE x

\* max(0, x): x only if x > 0
max0(x) == IF RGt(x, Num(0)) THEN x ELSE Num(0)

\* DivInteira rounding up to the next whole share
DivInteira_m(a, p) == (a[1] * p[2]) \div (a[2] * p[1]) + 1

\* int(a // p) for a >= 0, p > 0
DivInteira(a, p) == (a[1] * p[2]) \div (a[2] * p[1])

\* aporte_necessario with the target computed on the contribution alone
aporte_necessario_m(sel, w, cart, pr) ==
    LET valores_atuais == [t \in sel |-> RMul(Num(cart[t]), pr[t])]
        total_novo == Num(valor_aporte)
        alocacao_alvo == [t \in sel |-> RMul(w[t], total_novo)]
    IN  [t \in sel |-> max0(RSub(alocacao_alvo[t], valores_atuais[t]))]

\* lines 88-94
aporte_necessario(sel, w, cart, pr) ==
    LET valores_atuais == [t \in sel |-> RMul(Num(cart[t]), pr[t])]
        total_antes == Soma(sel, valores_atuais)
        total_novo == RAdd(total_antes, Num(valor_aporte))
        alocacao_alvo == [t \in sel |-> RMul(w[t], total_novo)]
    IN  [t \in sel |-> max0(RSub(alocacao_alvo[t], valores_atuais[t]))]

\* lines 97-100
qtd_comprada(t, necessario, pr) ==
    IF RGt(pr[t], Num(0)) THEN DivInteira(necessario[t], pr[t]) ELSE 0

Comprar(sel, w, cart, pr) ==
    LET necessario == aporte_necessario(sel, w, cart, pr)
    IN  [t \in Tickers |->
            IF t \in sel THEN cart[t] + qtd_comprada(t, necessario, pr) ELSE cart[t]]

\* line 103
patrimonio(sel, cart, pr) == Soma(sel, [t \in sel |-> RMul(Num(cart[t]), pr[t])])

\* line 111 rounding up to the next whole unit
qtd_ibov_m(preco) ==
    IF RGt(preco, Num(0)) THEN DivInteira(Num(valor_aporte), preco) + 1 ELSE 0

\* line 111
qtd_ibov(preco) == IF RGt(preco, Num(0)) THEN DivInteira(Num(valor_aporte), preco) ELSE 0

\* sign of (valor_final / total_aportado) ** (1 / n_years) - 1 for n_years > 0:
\* the sign of valor_final - total_aportado; NaN stays NaN
cagr(valor_final, total_aportado) ==
    IF IsNaN(valor_final) THEN NaN
    ELSE IF RGt(valor_final, Num(total_aportado)) THEN Num(1)
    ELSE IF RLt(valor_final, Num(total_aportado)) THEN Num(-1)
    ELSE Num(0)

-----------------------------------------------------------------------------
(* Backtest.py inputs: what the cache and the price provider serve at a date *)

\* number of rebalance dates of a run is 1..MaxDatas
MaxDatas == 2

InfoZero == [info |-> [payoutRatio |-> Frac(-10, 100)]]
InfoMuitoBaixo ==
    [info |-> [payoutRatio |-> Frac(-10, 100), dividendYield |-> Frac(15, 1000)]]
InfoBaixo == [info |-> [returnOnEquity |-> Frac(11, 100)]]

Cenario(seq) == [t \in Tickers |-> seq[CHOOSE k \in 1..Len(tickers) : tickers[k] = t]]

\* cached records per ticker (None: the record cannot be loaded)
CenariosDados ==
    {Cenario(<<InfoCenario, InfoVazio, InfoVazio, InfoBaixo, None, None>>),
     Cenario(<<InfoVazio, InfoCenario, InfoBom, InfoMuitoBaixo, InfoZero, None>>),
     Cenario(<<InfoBom, InfoCenario, InfoMedio, InfoBom, InfoCenario, InfoMedio>>),
     Cenario(<<InfoVazio, InfoBaixo, InfoMuitoBaixo, InfoVazio, InfoBaixo, InfoMuitoBaixo>>),
     Cenario(<<InfoZero, InfoZero, InfoZero, InfoZero, InfoZero, InfoZero>>),
     Cenario(<<None, InfoMuitoBaixo, InfoZero, None, None, None>>)}

P(n) == <<Num(n), Num(n)>>

\* what the price provider serves at a date: the month's window of adjusted
\* closes per ticker, and ibov.asof(data_aporte)
CenariosMercado ==
    {[janelas |-> Cenario(<<P(10), P(10), P(10), P(10), P(10), P(10)>>),
      ibov |-> Num(10)],
     [janelas |-> Cenario(<<P(30), P(30), P(30), P(30), P(30), P(30)>>),
      ibov |-> Num(30)],
     [janelas |-> Cenario(<<P(30), P(10), P(10), P(10), P(10), P(10)>>),
      ibov |-> NaN],
     [janelas |-> Cenario(<<<<Num(10), Num(30)>>, <<Num(30), NaN>>, P(2000),
                            P(10), P(0), <<NaN, NaN>>>>),
      ibov |-> Num(30)]}

\* AvaliarAtivos of every cache content, evaluated once
PontuacoesDe == [c \in CenariosDados |-> AvaliarAtivos(c)]

InitBacktest ==
    /\ pc = "loop"
    /\ n_datas \in 1..MaxDatas
    /\ mes = 0
    /\ carteira = [t \in Tickers |-> 0]
    /\ valor_carteira = << >>
    /\ historico_pesos = << >>
    /\ ibov_qtd = 0
    /\ ibov_patrimonio = << >>
    /\ pontuacoes = EmptyDict
    /\ selecionados = {}
    /\ precos = EmptyDict
    /\ preco_ibov = NaN
    /\ mercado = << >>
    /\ cagr_carteira = NaN
    /\ cagr_ibov = NaN

\* one iteration of "for data_aporte in datas_aporte" (lines 52-113)
Rebalancear ==
    /\ pc = "loop"
    /\ mes < n_datas
    /\ \E cache \in CenariosDados, m \in CenariosMercado :
          LET pont == PontuacoesDe[cache]
              pi == m.ibov
          IN  \E sel \in Selecionar(pont) :
                 LET w == CalcularPesos(sel, pont)
                     pr == [t \in sel |-> UltimoPreco(m.janelas[t])]
                     cart == Comprar(sel, w, carteira, pr)
                     q == ibov_qtd + qtd_ibov(pi)
                 IN  /\ pontuacoes' = pont
                     /\ selecionados' = sel
                     /\ precos' = pr
                     /\ carteira' = cart
                     /\ valor_carteira' = Append(valor_carteira, patrimonio(sel, cart, pr))
                     /\ historico_pesos' = Append(historico_pesos, w)
                     /\ preco_ibov' = pi
                     /\ ibov_qtd' = q
                     /\ ibov_patrimonio' = Append(ibov_patrimonio, RMul(Num(q), pi))
                     /\ mercado' = Append(mercado, m)
    /\ mes' = mes + 1
    /\ UNCHANGED <<pc, n_datas, cagr_carteira, cagr_ibov, varsPicks, varsAporte, varsLista>>

\* lines 123-127: n_years is 0 when there is a single date, and 1 / n_years raises
Resultado_CAGR ==
    /\ pc = "loop"
    /\ mes = n_datas
    /\ IF n_datas = 1
       THEN /\ pc' = "erro"
            /\ UNCHANGED <<cagr_carteira, cagr_ibov>>
       ELSE /\ pc' = "fim"
            /\ cagr_carteira' = cagr(valor_carteira[Len(valor_carteira)], valor_aporte * n_datas)
            /\ cagr_ibov' = cagr(ibov_patrimonio[Len(ibov_patrimonio)], valor_aporte * n_datas)
    /\ UNCHANGED <<n_datas, mes, carteira, valor_carteira, historico_pesos, ibov_qtd,
                   ibov_patrimonio, pontuacoes, selecionados, precos, preco_ibov,
                   mercado, varsPicks, varsAporte, varsLista>>

Next == Rebalancear \/ Resultado_CAGR

PicksParado == pesos = obter_pesos_padrao /\ dados = None /\ resultados = << >>

Init == InitBacktest /\ PicksParado /\ AporteParado /\ ListaParada

Spec == Init /\ [][Next]_vars

-----------------------------------------------------------------------------
(* coleta_dados_melhorado.py: obter_lista_acoes.                           *)
(* The manual lists are cut down to their first ticker and to tickers they *)
(* share: CMIN3 is in acoes_ibov and in small_caps, FRAS3 in mid_caps and  *)
(* in small_caps.  The fallback list is whole.                             *)

acoes_ibov == <<"ABEV3.SA", "CMIN3.SA">>
mid_caps == <<"AESB3.SA", "FRAS3.SA">>
small_caps == <<"AGRO3.SA", "CMIN3.SA", "FRAS3.SA">>
acoes_fallback ==
    <<"PETR4.SA", "VALE3.SA", "ITUB4.SA", "BBDC4.SA", "B3SA3.SA",
      "ABEV3.SA", "WEGE3.SA", "RENT3.SA", "BBAS3.SA", "SUZB3.SA">>

\* lines 83-161: the list before "Remover duplicatas"
acoes_brutas(componentes, small, mid) ==
    IF Len(componentes) > 0
    THEN [k \in 1..Len(componentes) |-> componentes[k] \o ".SA"]
    ELSE acoes_ibov \o (IF mid THEN mid_caps ELSE << >>)
                    \o (IF small THEN small_caps ELSE << >>)

\* list(set(acoes)): every ticker once, in an order the hash seed decides
list_set(lista) ==
    LET S == {lista[k] : k \in 1..Len(lista)}
    IN  {o \in [1..Cardinality(S) -> S] : \A i, j \in DOMAIN o : o[i] = o[j] => i = j}

\* line 167: "if limite is not None and limite > 0 and limite < len(acoes)"
limitar(lista, lim) ==
    IF lim # None /\ lim[1] > 0 /\ lim[1] < Len(lista)
    THEN SubSeq(lista, 1, lim[1])
    ELSE lista

MaxLimite == 6
LimiteSet == {None} \cup {Num(n) : n \in -1..MaxLimite}
ComponentesSet == {None, <<"PETR4", "VALE3", "PETR4">>}

InitLista ==
    /\ pc = "lista"
    /\ limite \in LimiteSet
    /\ incluir_small_caps \in BOOLEAN
    /\ incluir_mid_caps \in BOOLEAN
    /\ ibov_components \in ComponentesSet
    /\ acoes = None
    /\ PicksParado /\ BacktestParado /\ AporteParado

\* the whole call; falha: something in the try block raised
obter_lista_acoes ==
    /\ pc = "lista"
    /\ \E falha \in BOOLEAN :
          IF falha
          THEN acoes' = acoes_fallback
          ELSE \E o \in list_set(acoes_brutas(ibov_components, incluir_small_caps,
                                               incluir_mid_caps)) :
                  acoes' = limitar(o, limite)
    /\ pc' = "lista_fim"
    /\ UNCHANGED <<limite, incluir_small_caps, incluir_mid_caps, ibov_components,
                   varsPicks, varsBacktest, varsAporte>>

NextLista == obter_lista_acoes

SpecLista == InitLista /\ [][NextLista]_vars

-----------------------------------------------------------------------------
(* Picks.py: the "Carteira Personalizada" analysis, lines 1494-1846: the   *)
(* stocks of the list are scored, sorted, and analisar_carteira_para_aporte *)
(* recommends where the contribution goes.                                 *)

MelhoresAcoesAlocacao == "Melhores Acoes"
\* the keys of an allocation, in insertion order
CategoriasAlocacao == <<AcoesDefensivas, EmpresasSolidas, AcoesBaratas, MelhoresAcoesAlocacao>>
Perfis == {"Conservador", "Moderado", "Agressivo"}
Cenarios == {"Expansao", "Desaceleracao", "Recessao", "Recuperacao"}

\* the percentages of sugerir_alocacao, in the order of CategoriasAlocacao;
\* "60%" is written 60, which is what float(v.replace('%', '')) makes of it
TabelaAlocacao(p, c) ==
    CASE p = "Conservador" /\ c = "Expansao" -> <<60, 30, 10, 0>>
      [] p = "Conservador" /\ c = "Desaceleracao" -> <<70, 20, 10, 0>>
      [] p = "Conservador" /\ c = "Recessao" -> <<80, 15, 5, 0>>
      [] p = "Conservador" /\ c = "Recuperacao" -> <<65, 25, 10, 0>>
      [] p = "Moderado" /\ c = "Expansao" -> <<30, 40, 15, 15>>
      [] p = "Moderado" /\ c = "Desaceleracao" -> <<40, 35, 15, 10>>
      [] p = "Moderado" /\ c = "Recessao" -> <<50, 30, 15, 5>>
      [] p = "Moderado" /\ c = "Recuperacao" -> <<25, 35, 20, 20>>
      [] p = "Agressivo" /\ c = "Expansao" -> <<10, 25, 25, 40>>
      [] p = "Agressivo" /\ c = "Desaceleracao" -> <<20, 30, 25, 25>>
      [] p = "Agressivo" /\ c = "Recessao" -> <<30, 30, 30, 10>>
      [] p = "Agressivo" /\ c = "Recuperacao" -> <<5, 25, 30, 40>>
      [] OTHER -> << >>

\* alocacao_ideal_num: category -> percentage; {} for an unknown pair
sugerir_alocacao(p, c) ==
    LET v == TabelaAlocacao(p, c)
    IN  [categoria \in {CategoriasAlocacao[k] : k \in 1..Len(v)} |->
            Num(v[CHOOSE k \in 1..Len(v) : CategoriasAlocacao[k] = categoria])]

\* sorted(lista, key=lambda x: x['PontuacaoFinal'], reverse=True): stable
RECURSIVE sorted_PontuacaoFinal(_)
sorted_PontuacaoFinal(lista) ==
    IF lista = << >> THEN << >>
    ELSE LET maior(k) == \A j \in 1..Len(lista) :
                            ~RGt(lista[j].PontuacaoFinal, lista[k].PontuacaoFinal)
             m == CHOOSE k \in 1..Len(lista) :
                     maior(k) /\ \A j \in 1..(k - 1) : ~maior(j)
         IN  <<lista[m]>> \o
             sorted_PontuacaoFinal(SubSeq(lista, 1, m - 1) \o SubSeq(lista, m + 1, Len(lista)))

\* lista[:n] with n >= 0.  semente is the state of the random module, which
\* the slice does not read.
fatia_m(lista, n, semente) ==
    IF Len(lista) > n
    THEN LET i == (semente % (Len(lista) - n + 1)) + 1 IN SubSeq(lista, i, i + n - 1)
    ELSE lista

fatia(lista, n, semente) == IF Len(lista) > n THEN SubSeq(lista, 1, n) ELSE lista

\* random.sample(motivos, 3): one of the outcomes, picked by the random state
random_sample3(motivos, semente) ==
    LET i == (semente % (Len(motivos) - 2)) + 1 IN SubSeq(motivos, i, i + 2)

\* random.choice(motivos)
random_choice(motivos, semente) == motivos[(semente % Len(motivos)) + 1]

\* the labels of a result, "Melhores Acoes Brasileiras" under its allocation name
categorias_map(acao) ==
    {IF acao.Categorias[k] = MelhoresAcoes THEN MelhoresAcoesAlocacao ELSE acao.Categorias[k] :
        k \in 1..Len(acao.Categorias)}

\* lines 1010-1019: acoes_por_categoria[categoria]
acoes_por_categoria(res, categoria) ==
    LET pertence(r) == categoria \in categorias_map(r)
    IN  sorted_PontuacaoFinal(SelectSeq(res, pertence))

\* lines 1021-1041: categorias_atuais
categorias_atuais(res, cart) ==
    LET com_dados == {k \in 1..Len(res) : res[k].Ticker \in DOMAIN cart}
        chaves == {CategoriasAlocacao[k] : k \in 1..4}
                     \cup UNION {categorias_map(res[k]) : k \in com_dados}
    IN  [categoria \in chaves |->
            LET ks == {k \in com_dados : categoria \in categorias_map(res[k])}
            IN  Soma(ks, [k \in ks |-> cart[res[k].Ticker]])]

\* "x > limiar" on a metric that may be None: comparing None raises TypeError
compara_None(acao, campos) == \E c \in campos : acao.Metricas[c] = None

\* gerar_motivo_recomendacao raises
gerar_motivo_recomendacao_raises(acao) ==
    compara_None(acao, {"MargemLiquida", "LiquidezCorrente"})

\* gerar_motivo_recomendacao, each text by a short name
gerar_motivo_recomendacao(acao, categoria, percentual_atual, semente) ==
    LET motivos ==
            <<categoria \o " 1", categoria \o " 2", categoria \o " 3">>
            \o (IF REq(percentual_atual, Num(0)) THEN <<"nova posicao">>
                ELSE IF RLt(percentual_atual, Num(3)) THEN <<"aumentar exposicao">>
                ELSE << >>)
            \o (IF RGt(acao.Metricas.MargemLiquida, Num(15)) THEN <<"margem liquida">> ELSE << >>)
            \o (IF RGt(acao.Metricas.LiquidezCorrente, Frac(15, 10)) THEN <<"liquidez">> ELSE << >>)
    IN  IF Len(motivos) > 3 THEN random_sample3(motivos, semente) ELSE motivos

\* gerar_motivo_recomendacao_alternativo raises
gerar_motivo_recomendacao_alternativo_raises(acao) ==
    compara_None(acao, {"ROE", "MargemLiquida", "DividaPatrimonio", "PL", "PVP",
                        "CrescimentoLucros"})

\* gerar_motivo_recomendacao_alternativo; Metricas has none of the technical
\* keys, and no scenario name contains "Alta", "Neutra" or "Baixa"
gerar_motivo_recomendacao_alternativo(acao, categoria, percentual_atual, semente) ==
    LET m == acao.Metricas
        f == (IF RGt(m.ROE, Num(10)) THEN <<"ROE">> ELSE << >>)
             \o (IF RGt(m.MargemLiquida, Num(10)) THEN <<"margem liquida">> ELSE << >>)
             \o (IF RLt(m.DividaPatrimonio, Num(1)) THEN <<"endividamento">> ELSE << >>)
             \o (IF RLt(m.PL, Num(15)) /\ RGt(m.PL, Num(0)) THEN <<"P/L">> ELSE << >>)
             \o (IF RLt(m.PVP, Num(2)) /\ RGt(m.PVP, Num(0)) THEN <<"P/VP">> ELSE << >>)
             \o (IF RGt(m.DividendYield, Num(4)) THEN <<"dividend yield">> ELSE << >>)
             \o (IF RGt(m.CrescimentoLucros, Num(10)) THEN <<"crescimento">> ELSE << >>)
        motivos_fundamentalistas == IF f = << >> THEN <<"pontuacao">> ELSE f
        motivos_tecnicos == <<"RSI sobrevenda", "baixa volatilidade">>
        motivos_macro == <<categoria \o " macro">>
    IN  <<random_choice(motivos_fundamentalistas, semente),
          random_choice(motivos_tecnicos, semente),
          random_choice(motivos_macro, semente)>>

\* the dict built by "recomendacoes[ticker] = {...}" over the entries in
\* order: a later entry of the same ticker replaces the earlier one
dict_de(entradas) ==
    [t \in {entradas[k][1] : k \in 1..Len(entradas)} |->
        LET u == CHOOSE k \in 1..Len(entradas) :
                    /\ entradas[k][1] = t
                    /\ \A j \in (k + 1)..Len(entradas) : entradas[j][1] # t
        IN  entradas[u][2]]

\* lines 1060-1078: acoes_recomendadas of one category
acoes_recomendadas(res, cart, categoria, semente) ==
    LET melhores_acoes == fatia(acoes_por_categoria(res, categoria), 3, semente)
        existente(a) == a.Ticker \in DOMAIN cart /\ RLt(cart[a.Ticker], Num(5))
        nova(a) == a.Ticker \notin DOMAIN cart
    IN  fatia(SelectSeq(melhores_acoes, existente) \o SelectSeq(melhores_acoes, nova),
              3, semente)

\* lines 1052-1095: the entries written for the categories with a positive
\* gap, as <<ticker, entry, raises>>
recomendacoes_por_diferenca(res, cart, diferencas, aporte, semente) ==
    LET positivas == SelectSeq(CategoriasAlocacao,
                               LAMBDA c : c \in DOMAIN diferencas /\ RGt(diferencas[c], Num(0)))
        soma == Soma({positivas[k] : k \in 1..Len(positivas)}, diferencas)
        da_categoria(categoria) ==
            LET percentual_aporte == RDiv(diferencas[categoria], soma)
                valor_categoria == RMul(Num(aporte), percentual_aporte)
                rec == acoes_recomendadas(res, cart, categoria, semente)
            IN  [k \in 1..Len(rec) |->
                    <<rec[k].Ticker,
                      [Valor |-> RDiv(valor_categoria, Num(Len(rec))),
                       Percentual |-> RDiv(RMul(percentual_aporte, Num(100)), Num(Len(rec))),
                       Categoria |-> categoria,
                       Pontuacao |-> rec[k].PontuacaoFinal,
                       Motivo |-> IF gerar_motivo_recomendacao_raises(rec[k]) THEN << >>
                                  ELSE gerar_motivo_recomendacao(rec[k], categoria,
                                           Get(cart, rec[k].Ticker, Num(0)), semente)],
                      gerar_motivo_recomendacao_raises(rec[k])>>]
        RECURSIVE todas(_)
        todas(k) == IF k > Len(positivas) THEN << >>
                    ELSE da_categoria(positivas[k]) \o todas(k + 1)
    IN  IF RGt(soma, Num(0)) THEN todas(1) ELSE << >>

\* lines 1097-1136: the entries written when nothing was recommended
recomendacoes_alternativas(res, cart, aporte, semente) ==
    LET RECURSIVE duas_de_cada(_)
        duas_de_cada(k) ==
            IF k > Len(CategoriasAlocacao) THEN << >>
            ELSE fatia(acoes_por_categoria(res, CategoriasAlocacao[k]), 2, semente)
                 \o duas_de_cada(k + 1)
        melhores_acoes_geral == fatia(sorted_PontuacaoFinal(duas_de_cada(1)), 5, semente)
        n == Len(melhores_acoes_geral)
        categoria_principal(a) ==
            IF MelhoresAcoesAlocacao \in categorias_map(a) THEN MelhoresAcoesAlocacao
            ELSE a.Categorias[1]
    IN  [k \in 1..n |->
            LET a == melhores_acoes_geral[k]
            IN  <<a.Ticker,
                  [Valor |-> RDiv(Num(aporte), Num(n)),
                   Percentual |-> RDiv(Num(100), Num(n)),
                   Categoria |-> categoria_principal(a),
                   Pontuacao |-> a.PontuacaoFinal,
                   Motivo |-> IF gerar_motivo_recomendacao_alternativo_raises(a) THEN << >>
                              ELSE gerar_motivo_recomendacao_alternativo(a,
                                       categoria_principal(a),
                                       Get(cart, a.Ticker, Num(0)), semente)],
                  gerar_motivo_recomendacao_alternativo_raises(a)>>]

\* analisar_carteira_para_aporte; raised: the call ended in a TypeError
analisar_carteira_para_aporte(res, cart, p, c, aporte, semente) ==
    LET alocacao_ideal == sugerir_alocacao(p, c)
        atuais == categorias_atuais(res, cart)
        diferencas == [categoria \in DOMAIN alocacao_ideal |->
                          RSub(alocacao_ideal[categoria], atuais[categoria])]
        primeiras == recomendacoes_por_diferenca(res, cart, diferencas, aporte, semente)
        entradas == IF primeiras # << >> THEN primeiras
                    ELSE recomendacoes_alternativas(res, cart, aporte, semente)
    IN  IF \E k \in 1..Len(entradas) : entradas[k][3]
        THEN [raised |-> TRUE, carteira_atual |-> EmptyDict, alocacao_ideal |-> EmptyDict,
              diferencas |-> EmptyDict, recomendacoes |-> EmptyDict]
        ELSE [raised |-> FALSE, carteira_atual |-> atuais, alocacao_ideal |-> alocacao_ideal,
              diferencas |-> diferencas, recomendacoes |-> dict_de(entradas)]

\* lines 1512-1545: the ranking; a ticker without data is skipped
ranking(ds, p) ==
    LET RECURSIVE analisadas(_)
        analisadas(k) ==
            IF k > Len(ds) THEN << >>
            ELSE (IF ds[k][2] = None THEN << >>
                  ELSE <<[Ticker |-> ds[k][1]] @@ Resultado(ds[k][2], p)>>)
                 \o analisadas(k + 1)
    IN  sorted_PontuacaoFinal(analisadas(1))

\* high dividend yield with a sustainable payout, and nothing else to commend it
InfoDefensiva == InfoCompleto(5, 12, 12, 7, 20, 20, 9, 6, 160, 130, 60)

\* sound (ROE above 10, debt below 1.5 times equity), and nothing else
InfoSolida == InfoCompleto(14, 12, 12, 7, 17, 17, 9, 3, 100, 130, 40)

\* the tickers the user may list, each with what the cache holds for it
AcoesBase ==
    <<<<"WEGE3", InfoBom>>, <<"EGIE3", InfoSolida>>, <<"VALE3", InfoMedio>>,
      <<"TAEE11", InfoDefensiva>>, <<"ITUB4", InfoCenario>>, <<"OIBR3", InfoRuim>>,
      <<"PETR4", None>>>>

\* the entries of lista at the positions S, in list order
RECURSIVE Escolher(_, _)
Escolher(lista, S) ==
    IF S = {} THEN << >>
    ELSE LET k == CHOOSE i \in S : \A j \in S : i <= j
         IN  <<lista[k]>> \o Escolher(lista, S \ {k})

MaxCarteira == 3
\* one to MaxCarteira of the tickers, listed in the order of AcoesBase
DadosAcoesSet ==
    {Escolher(AcoesBase, S) :
        S \in {T \in SUBSET (1..Len(AcoesBase)) : Cardinality(T) \in 1..MaxCarteira}}

\* the portfolios of lines 1434-1471 over the listed tickers, normalised to
\* 100: equal parts, or 2% in one ticker and the rest in equal parts
CarteirasDe(ds) ==
    LET T == {ds[k][1] : k \in 1..Len(ds)}
        n == Cardinality(T)
    IN  {[t \in T |-> Frac(100, n)]}
            \cup {[t \in T |-> IF t = u THEN Num(2) ELSE Frac(98, n - 1)] : u \in {v \in T : n > 1}}

MaxSemente == 2
\* the value the "Valor do Aporte" input starts with
aporte_padrao == 1000
Sementes == 0..(MaxSemente - 1)

InitAporte ==
    /\ pc = "aporte"
    /\ pesos = obter_pesos_padrao /\ dados = None /\ resultados = << >>
    /\ dados_acoes \in DadosAcoesSet
    /\ carteira_atual \in CarteirasDe(dados_acoes)
    /\ perfil \in Perfis
    /\ cenario \in Cenarios
    /\ analise = None
    /\ reanalise = None
    /\ BacktestParado
    /\ ListaParada

\* "Analisar Acoes" in the mode "Carteira Personalizada": the ranking, then
\* the contribution recommendation
AnalisarCarteira ==
    /\ pc = "aporte"
    /\ resultados' = ranking(dados_acoes, pesos)
    /\ \E semente \in Sementes :
          analise' = analisar_carteira_para_aporte(resultados', carteira_atual, perfil,
                                                   cenario, aporte_padrao, semente)
    /\ pc' = "aporte_fim"
    /\ UNCHANGED <<pesos, dados, dados_acoes, carteira_atual, perfil, cenario, reanalise,
                   varsBacktest, varsLista>>

\* the button pressed again with nothing changed: the script runs anew
AnalisarDeNovo ==
    /\ pc = "aporte_fim"
    /\ LET r == ranking(dados_acoes, pesos)
       IN  \E semente \in Sementes :
              reanalise' = [resultados |-> r,
                            analise |-> analisar_carteira_para_aporte(r, carteira_atual,
                                            perfil, cenario, aporte_padrao, semente)]
    /\ pc' = "aporte_refeito"
    /\ UNCHANGED <<varsPicks, dados_acoes, carteira_atual, perfil, cenario, analise,
                   varsBacktest, varsLista>>

NextAporte == AnalisarCarteira \/ AnalisarDeNovo

SpecAporte == InitAporte /\ [][NextAporte]_vars

-----------------------------------------------------------------------------
(* Properties of the scoring pipeline (SpecPicks) *)

Ultimo(seq) == seq[Len(seq)]
Range(seq) == {seq[k] : k \in 1..Len(seq)}

TodosPresentes(metricas) == \A c \in Criterios : metricas[c] # None

\* C1: a record with all eleven criteria present and integer weights in
\* [0,10] gets a final score in [0,10], and 0 when the weights sum to 0.
C1_PontuacaoEntre0e10 ==
    \A k \in 1..Len(resultados) :
        TodosPresentes(resultados[k].Metricas) =>
            /\ RGe(resultados[k].PontuacaoFinal, Num(0))
            /\ RLe(resultados[k].PontuacaoFinal, Num(10))
            /\ (SomaSobre(Criterios, pesos) = 0 => resultados[k].PontuacaoFinal = Num(0))

C1_Witness ==
    \E k \in 1..Len(resultados) :
        /\ TodosPresentes(resultados[k].Metricas)
        /\ \A c \in Criterios : pesos[c] \in 0..10
        /\ RGt(resultados[k].PontuacaoFinal, Num(0))
        /\ RLt(resultados[k].PontuacaoFinal, Num(10))

\* every field of the loaded record is absent
TodosAusentes(d) ==
    /\ d # None
    /\ DOMAIN Get(d, "info", EmptyDict) = {}
    /\ Get(d, "income_statement", << >>) = << >>
    /\ Get(d, "balance_sheet", << >>) = << >>

\* C5: a record with every field absent gets final score 0 and exactly the
\* label set {"Baixo Potencial"}.
C5_TodosAusentes ==
    (resultados # << >> /\ TodosAusentes(dados)) =>
        /\ Ultimo(resultados).PontuacaoFinal = Num(0)
        /\ Range(Ultimo(resultados).Categorias) = {BaixoPotencial}

Crescentes ==
    {"ROE", "ROIC", "MargemLiquida", "CrescimentoLucros", "DividendYield",
     "LiquidezCorrente"}
Decrescentes == {"PL", "PVP", "EV_EBITDA", "DividaPatrimonio"}

\* two metric records that both hold c and agree on every other criterion
SoDifereEm(m1, m2, c) ==
    /\ m1[c] # None
    /\ m2[c] # None
    /\ \A c2 \in Criterios \ {c} : m1[c2] = m2[c2]

\* C6: with the weights and every other input fixed, the final score is
\* non-decreasing in ROE, ROIC, net margin, earnings growth, dividend yield
\* and current ratio, and non-increasing in P/E, P/B, EV/EBITDA and
\* debt/equity over positive values of the ratio.
C6_Monotonia ==
    \A k \in 1..(Len(resultados) - 1) :
        LET a == resultados[k]
            b == resultados[k + 1]
        IN  /\ \A c \in Crescentes :
                   SoDifereEm(a.Metricas, b.Metricas, c) =>
                       /\ RLe(a.Metricas[c], b.Metricas[c]) =>
                              RLe(a.PontuacaoFinal, b.PontuacaoFinal)
                       /\ RGe(a.Metricas[c], b.Metricas[c]) =>
                              RGe(a.PontuacaoFinal, b.PontuacaoFinal)
            /\ \A c \in Decrescentes :
                   (/\ SoDifereEm(a.Metricas, b.Metricas, c)
                    /\ RGt(a.Metricas[c], Num(0))
                    /\ RGt(b.Metricas[c], Num(0))) =>
                       /\ RLe(a.Metricas[c], b.Metricas[c]) =>
                              RGe(a.PontuacaoFinal, b.PontuacaoFinal)
                       /\ RGe(a.Metricas[c], b.Metricas[c]) =>
                              RLe(a.PontuacaoFinal, b.PontuacaoFinal)

\* a positive P/E rose and the score fell
C6_Witness ==
    /\ Len(resultados) >= 2
    /\ LET a == resultados[Len(resultados) - 1]
           b == resultados[Len(resultados)]
       IN  /\ SoDifereEm(a.Metricas, b.Metricas, "PL")
           /\ RGt(a.Metricas["PL"], Num(0))
           /\ RLt(a.Metricas["PL"], b.Metricas["PL"])
           /\ RGt(a.PontuacaoFinal, b.PontuacaoFinal)

\* {ROE: 20, DividaPatrimonio: 0.3, PL: 8, DividendYield: 2, Payout: 50}
RegistroCenario(metricas) ==
    /\ metricas["ROE"] = Num(20)
    /\ metricas["DividaPatrimonio"] = Frac(3, 10)
    /\ metricas["PL"] = Num(8)
    /\ metricas["DividendYield"] = Num(2)
    /\ metricas["Payout"] = Num(50)
    /\ \A c \in Criterios \ {"ROE", "DividaPatrimonio", "PL", "DividendYield", "Payout"} :
           metricas[c] = None

\* C10: that record, scored with the default weights, has a final score
\* above 7 and is labelled Melhores Acoes Brasileiras and Empresas Solidas
\* but not Acoes Defensivas.
C10_Cenario ==
    \A k \in 1..Len(resultados) :
        (RegistroCenario(resultados[k].Metricas) /\ pesos = obter_pesos_padrao) =>
            /\ RGt(resultados[k].PontuacaoFinal, Num(7))
            /\ MelhoresAcoes \in Range(resultados[k].Categorias)
            /\ EmpresasSolidas \in Range(resultados[k].Categorias)
            /\ AcoesDefensivas \notin Range(resultados[k].Categorias)

C10_Witness ==
    \E k \in 1..Len(resultados) :
        RegistroCenario(resultados[k].Metricas) /\ pesos = obter_pesos_padrao

\* all eleven criteria present with a positive value
TodosPositivos(metricas) ==
    \A c \in Criterios : metricas[c] # None /\ RGt(metricas[c], Num(0))

\* C16: for a record with all ratios present and positive, the labels hold
\* Melhores Acoes Brasileiras iff score >= 7, Empresas Solidas iff ROE > 10
\* and debt/equity < 1.5, and Acoes Defensivas iff dividend yield > 3 and
\* payout < 80, each whatever the other labels are.
C16_TodasAsCategorias ==
    \A k \in 1..Len(resultados) :
        LET r == resultados[k]
            m == r.Metricas
            cats == Range(r.Categorias)
        IN  TodosPositivos(m) =>
                /\ (MelhoresAcoes \in cats) <=> RGe(r.PontuacaoFinal, Num(7))
                /\ (EmpresasSolidas \in cats) <=>
                       (RGt(m["ROE"], Num(10)) /\ RLt(m["DividaPatrimonio"], Frac(15, 10)))
                /\ (AcoesDefensivas \in cats) <=>
                       (RGt(m["DividendYield"], Num(3)) /\ RLt(m["Payout"], Num(80)))

\* a record labelled Empresas Solidas and Acoes Baratas at once, and not
\* Melhores Acoes Brasileiras
C16_Witness ==
    \E k \in 1..Len(resultados) :
        /\ TodosPositivos(resultados[k].Metricas)
        /\ EmpresasSolidas \in Range(resultados[k].Categorias)
        /\ AcoesBaratas \in Range(resultados[k].Categorias)
        /\ MelhoresAcoes \notin Range(resultados[k].Categorias)

\* the value of a ratio is present and below the limit
Abaixo(metricas, c, teto) == metricas[c] # None /\ RLt(metricas[c], teto)

\* C17 as stated: Acoes Baratas is given to every record whose P/E is below
\* 15 or whose P/B is below 1.5, and to no other record.
C17_BaratasAbaixoDoLimite ==
    \A k \in 1..Len(resultados) :
        (AcoesBaratas \in Range(resultados[k].Categorias)) <=>
            \/ Abaixo(resultados[k].Metricas, "PL", Num(15))
            \/ Abaixo(resultados[k].Metricas, "PVP", Frac(15, 10))

\* the value of a ratio is present, positive and below the ceiling
PositivoAbaixo(metricas, c, teto) ==
    Abaixo(metricas, c, teto) /\ RGt(metricas[c], Num(0))

\* C17 amended: Acoes Baratas is given to every record whose P/E is positive
\* and below 15 or whose P/B is positive and below 1.5, and to no other
\* record.
C17_BaratasPositivasAbaixoDoLimite ==
    \A k \in 1..Len(resultados) :
        (AcoesBaratas \in Range(resultados[k].Categorias)) <=>
            \/ PositivoAbaixo(resultados[k].Metricas, "PL", Num(15))
            \/ PositivoAbaixo(resultados[k].Metricas, "PVP", Frac(15, 10))

\* a record with a P/E that is negative or zero and without the label, and
\* a record with the label
C17_Witness ==
    /\ \E k \in 1..Len(resultados) :
           /\ Abaixo(resultados[k].Metricas, "PL", Num(15))
           /\ RLe(resultados[k].Metricas["PL"], Num(0))
           /\ AcoesBaratas \notin Range(resultados[k].Categorias)
    /\ \E k \in 1..Len(resultados) : AcoesBaratas \in Range(resultados[k].Categorias)

Primarias == {MelhoresAcoes, EmpresasSolidas, AcoesDefensivas, AcoesBaratas}
Residuais == {PotencialModerado, BaixoPotencial}

\* C18: the label list is never empty; it holds a fallback label exactly
\* when no primary label applies, and then it is the single label Potencial
\* Moderado if score >= 5 and the single label Baixo Potencial otherwise.
C18_CategoriaResidual ==
    \A k \in 1..Len(resultados) :
        LET r == resultados[k]
            cats == Range(r.Categorias)
        IN  /\ r.Categorias # << >>
            /\ cats \subseteq Primarias \cup Residuais
            /\ (cats \cap Residuais # {}) <=> (cats \cap Primarias = {})
            /\ (cats \cap Primarias = {}) =>
                   r.Categorias = IF RGe(r.PontuacaoFinal, Num(5))
                                  THEN <<PotencialModerado>>
                                  ELSE <<BaixoPotencial>>

\* both fallback labels were given in one run
C18_Witness ==
    /\ \E k \in 1..Len(resultados) : resultados[k].Categorias = <<PotencialModerado>>
    /\ \E k \in 1..Len(resultados) : resultados[k].Categorias = <<BaixoPotencial>>

\* the keys of info a criterion is computed from
Fontes(c) ==
    CASE c = "ROE" -> {"netIncome", "totalStockholderEquity", "returnOnEquity"}
      [] c = "ROIC" -> {"ebit", "totalAssets", "totalCurrentLiabilities"}
      [] c = "MargemLiquida" -> {"netIncome", "totalRevenue", "profitMargins"}
      [] c = "CrescimentoLucros" -> {"earningsGrowth"}
      [] c = "PL" -> {"trailingPE"}
      [] c = "PVP" -> {"priceToBook"}
      [] c = "EV_EBITDA" -> {"enterpriseToEbitda"}
      [] c = "DividendYield" -> {"dividendYield"}
      [] c = "DividaPatrimonio" -> {"totalDebt", "totalStockholderEquity", "debtToEquity"}
      [] c = "LiquidezCorrente" -> {"totalCurrentAssets", "totalCurrentLiabilities"}
      [] c = "Payout" -> {"payoutRatio"}

SemDemonstracoes(d) ==
    /\ Get(d, "income_statement", << >>) = << >>
    /\ Get(d, "balance_sheet", << >>) = << >>

\* nothing criterion c could be computed from is in the record
CampoAusente(d, c) ==
    /\ Fontes(c) \cap DOMAIN Get(d, "info", EmptyDict) = {}
    /\ SemDemonstracoes(d)

\* C19: a criterion whose underlying field is absent gets no sub-score and
\* adds nothing to the weighted total or to the weight denominator of the
\* final score, for each of the eleven criteria.
C19_AusenteNaoPontua ==
    resultados # << >> =>
        LET r == Ultimo(resultados)
            contam == {c \in Criterios : ~CampoAusente(dados, c)} \cap DOMAIN r.Pontuacao
        IN  /\ \A c \in Criterios : CampoAusente(dados, c) => c \notin DOMAIN r.Pontuacao
            /\ r.PontuacaoFinal =
                   pontuacao_final_de(
                       SomaSobre(contam, [c \in contam |-> r.Pontuacao[c] * pesos[c]]),
                       SomaSobre(contam, [c \in contam |-> pesos[c]]))

\* info holds key k with the value 0
Zero(d, k) == k \in DOMAIN d["info"] /\ IsZero(d["info"][k])

\* C20 as stated: when a denominator (stockholder equity, total revenue,
\* invested capital, current liabilities) is zero, the metric derived from
\* it is null and gets no sub-score.
C20_DenominadorZeroNulo ==
    resultados # << >> =>
        LET r == Ultimo(resultados)
            m == r.Metricas
            info == dados["info"]
        IN  /\ Zero(dados, "totalStockholderEquity") =>
                   m["ROE"] = None /\ m["DividaPatrimonio"] = None
            /\ Zero(dados, "totalRevenue") => m["MargemLiquida"] = None
            /\ ({"ebit", "totalAssets", "totalCurrentLiabilities"} \subseteq DOMAIN info
                    /\ info["totalAssets"] = info["totalCurrentLiabilities"]) =>
                   m["ROIC"] = None
            /\ Zero(dados, "totalCurrentLiabilities") => m["LiquidezCorrente"] = None
            /\ \A c \in Criterios : m[c] = None => c \notin DOMAIN r.Pontuacao

\* the metric taken from the alternative key alt of info (scaled), or null
\* when neither that key nor the statements are there
Alternativa(d, metrica, alt, escala) ==
    /\ alt \in DOMAIN d["info"] => metrica = RMul(d["info"][alt], escala)
    /\ (alt \notin DOMAIN d["info"] /\ SemDemonstracoes(d)) => metrica = None

\* C20 amended: with a zero denominator the ratio is never computed from it.
\* ROIC (invested capital 0) and the current ratio (current liabilities 0)
\* are null; ROE, debt/equity and net margin are taken from returnOnEquity,
\* debtToEquity and profitMargins when info holds them, and are null when
\* neither that key nor a statement list is there; statement amounts with a
\* zero denominator give null; a null metric gets no sub-score; all eleven
\* metrics are always returned.
C20_DenominadorZeroAlternativa ==
    resultados # << >> =>
        LET r == Ultimo(resultados)
            m == r.Metricas
            info == dados["info"]
        IN  /\ Zero(dados, "totalStockholderEquity") =>
                   /\ Alternativa(dados, m["ROE"], "returnOnEquity", Num(100))
                   /\ Alternativa(dados, m["DividaPatrimonio"], "debtToEquity", Frac(1, 100))
            /\ Zero(dados, "totalRevenue") =>
                   Alternativa(dados, m["MargemLiquida"], "profitMargins", Num(100))
            /\ ({"ebit", "totalAssets", "totalCurrentLiabilities"} \subseteq DOMAIN info
                    /\ info["totalAssets"] = info["totalCurrentLiabilities"]) =>
                   m["ROIC"] = None
            /\ Zero(dados, "totalCurrentLiabilities") => m["LiquidezCorrente"] = None
            /\ dados = InfoDemonstracoesZero =>
                   /\ m["ROE"] = None
                   /\ m["ROIC"] = None
                   /\ m["MargemLiquida"] = None
                   /\ m["DividaPatrimonio"] = None
            /\ \A c \in Criterios : m[c] = None => c \notin DOMAIN r.Pontuacao
            /\ DOMAIN m = Criterios

\* equity is 0 and ROE comes from returnOnEquity, while current liabilities
\* are 0 and the current ratio is null
C20_Witness ==
    /\ resultados # << >>
    /\ Zero(dados, "totalStockholderEquity")
    /\ "netIncome" \in DOMAIN dados["info"]
    /\ "returnOnEquity" \in DOMAIN dados["info"]
    /\ Ultimo(resultados).Metricas["ROE"] # None
    /\ Zero(dados, "totalCurrentLiabilities")
    /\ "totalCurrentAssets" \in DOMAIN dados["info"]
    /\ Ultimo(resultados).Metricas["LiquidezCorrente"] = None

Degraus == {0, 2, 4, 6, 8, 10}

\* raw values a sub-score is compared at: every threshold of every
\* criterion, and a value on each side of it
Grade ==
    {Frac(n, 10) : n \in {-100, -60, -50, -40, -10, 0, 5, 8, 9, 10, 12, 13, 15,
                          20, 25, 30, 40, 50, 60, 70, 80, 100, 120, 150, 160,
                          200, 250, 300, 310, 500, 700, 900, 1000, 1100}}

\* sub-scores a (at value x) and b (at value y) are in non-decreasing order
NaoDecresce(x, a, y, b) == (RLe(x, y) => a <= b) /\ (RGe(x, y) => a >= b)
\* 0 for a negative value, and in non-increasing order over the others
NaoCresce(x, a, y, b) ==
    /\ RLt(x, Num(0)) => a = 0
    /\ RLt(y, Num(0)) => b = 0
    /\ (RGe(x, Num(0)) /\ RGe(y, Num(0))) => NaoDecresce(x, b, y, a)

\* C25 as stated: every sub-score is in {0,2,4,6,8,10}, and the sub-score of
\* each of the eleven criteria is a monotonic step function of the raw
\* value: non-decreasing, or 0 for negative values and non-increasing over
\* the non-negative ones.
C25_DegrausMonotonicos ==
    \A k \in 1..Len(resultados) :
        LET r == resultados[k]
        IN  \A c \in DOMAIN r.Pontuacao :
                /\ r.Pontuacao[c] \in Degraus
                /\ \A v \in Grade : SubPontuacao(c, v) \in Degraus
                /\ \/ \A v \in Grade :
                          NaoDecresce(r.Metricas[c], r.Pontuacao[c], v, SubPontuacao(c, v))
                   \/ \A v \in Grade :
                          NaoCresce(r.Metricas[c], r.Pontuacao[c], v, SubPontuacao(c, v))

\* the shape of the Payout steps: 0 for a negative value, rising up to the
\* range [50, 70) and falling from it
SobeEDesce(x, a, y, b) ==
    /\ RLt(x, Num(0)) => a = 0
    /\ RLt(y, Num(0)) => b = 0
    /\ (RGe(x, Num(0)) /\ RGe(y, Num(0)) /\ RLt(x, Num(70)) /\ RLt(y, Num(70))) =>
           NaoDecresce(x, a, y, b)
    /\ (RGe(x, Num(50)) /\ RGe(y, Num(50))) => NaoDecresce(x, b, y, a)

\* C25 amended: every sub-score is in {0,2,4,6,8,10}; it is non-decreasing in
\* the raw value for ROE, ROIC, net margin, earnings growth, dividend yield
\* and current ratio; 0 for negative values and non-increasing over the
\* non-negative ones for P/E, P/B, EV/EBITDA and debt/equity; for Payout it
\* is 0 for negative values, non-decreasing over [0, 70) and non-increasing
\* from 50 on.
C25_DegrausPorCriterio ==
    \A k \in 1..Len(resultados) :
        LET r == resultados[k]
        IN  \A c \in DOMAIN r.Pontuacao :
                /\ r.Pontuacao[c] \in Degraus
                /\ \A v \in Grade :
                       LET x == r.Metricas[c]
                           a == r.Pontuacao[c]
                           b == SubPontuacao(c, v)
                       IN  /\ b \in Degraus
                           /\ c \in Crescentes => NaoDecresce(x, a, v, b)
                           /\ c \in Decrescentes => NaoCresce(x, a, v, b)
                           /\ c = "Payout" => SobeEDesce(x, a, v, b)

\* a record with all eleven sub-scores whose payout is in the ideal range
C25_Witness ==
    \E k \in 1..Len(resultados) :
        /\ DOMAIN resultados[k].Pontuacao = Criterios
        /\ resultados[k].Pontuacao["Payout"] = 10

\* C27: Empresas Solidas is given only when ROE and debt/equity are both
\* present, Acoes Defensivas only when dividend yield and payout are both
\* present, Acoes Baratas only when the P/E or P/B that is under its
\* threshold is present.
C27_RotuloSoComRazaoPresente ==
    \A k \in 1..Len(resultados) :
        LET m == resultados[k].Metricas
            cats == Range(resultados[k].Categorias)
        IN  /\ EmpresasSolidas \in cats =>
                   m["ROE"] # None /\ m["DividaPatrimonio"] # None
            /\ AcoesDefensivas \in cats =>
                   m["DividendYield"] # None /\ m["Payout"] # None
            /\ AcoesBaratas \in cats =>
                   \/ Abaixo(m, "PL", Num(15))
                   \/ Abaixo(m, "PVP", Frac(15, 10))

-----------------------------------------------------------------------------
(* Properties of the backtest (Spec) *)

\* the target weights of the last date processed
PesosAtuais == Ultimo(historico_pesos)

\* C2: at every date with a non-empty selection the target weights are all
\* defined and sum to exactly 1.
C2_PesosSomamUm ==
    (mes > 0 /\ selecionados # {}) =>
        /\ \A t \in selecionados : ~IsNaN(PesosAtuais[t])
        /\ Soma(selecionados, PesosAtuais) = Num(1)

\* C3: the shares held of every ticker are a non-negative integer that never
\* decreases from one date to the next.
C3_CarteiraNaoDecresce ==
    [][\A t \in Tickers :
           /\ carteira[t] \in Nat
           /\ carteira'[t] \in Nat
           /\ carteira'[t] >= carteira[t]]_vars

\* shares bought at an earlier date are still held at a date that does not
\* select the ticker, while another ticker is bought
C3_Witness ==
    /\ mes >= 2
    /\ \E t \in Tickers \ selecionados : carteira[t] > 0
    /\ \E t \in selecionados : carteira[t] > 0

\* C4: no selected ticker's target weight exceeds limite_porc_ativo.
C4_PesoLimitado ==
    mes > 0 => \A t \in selecionados : RLe(PesosAtuais[t], limite_porc_ativo)

\* every ticker has the same, known price in every window served so far
PrecosNuncaMudam ==
    /\ mercado # << >>
    /\ \A k \in 1..Len(mercado) : mercado[k].janelas = mercado[1].janelas
    /\ \A t \in Tickers :
           /\ ~IsNaN(mercado[1].janelas[t][1])
           /\ \A d \in 1..Len(mercado[1].janelas[t]) :
                  mercado[1].janelas[t][d] = mercado[1].janelas[t][1]

total_aportado == valor_aporte * n_datas

\* C7 as stated: with prices that never change, after N dates the final
\* recorded portfolio value is C x N and the CAGR is 0.
C7_ValorFinalIgualAportes ==
    (mes = n_datas /\ mes > 0 /\ PrecosNuncaMudam) =>
        /\ Ultimo(valor_carteira) = Num(total_aportado)
        /\ pc \in {"fim", "erro"} => cagr_carteira = Num(0)

\* two dates, contribution 1000 at each, one selected ticker at constant
\* price 10, benchmark at the same constant price
CenarioDoisMeses(t) ==
    /\ n_datas = 2
    /\ mes = 2
    /\ \A k \in 1..2 :
           /\ DOMAIN historico_pesos[k] = {t}
           /\ ~IsNaN(historico_pesos[k][t])
           /\ mercado[k].janelas[t] = <<Num(10), Num(10)>>
           /\ mercado[k].ibov = Num(10)
    /\ RGe(pontuacoes[t], Num(Corte))

C9_FallbackTop5 ==
    (mes > 0 /\ \A t \in DOMAIN pontuacoes : RLt(pontuacoes[t], Num(Corte))) =>
        /\ selecionados \subseteq DOMAIN pontuacoes
        /\ Cardinality(selecionados) =
               (IF Cardinality(DOMAIN pontuacoes) < 5
                THEN Cardinality(DOMAIN pontuacoes) ELSE 5)
        /\ \A a \in selecionados, b \in (DOMAIN pontuacoes) \ selecionados :
               RGe(pontuacoes[a], pontuacoes[b])
        /\ Soma(selecionados, PesosAtuais) = Num(1)

\* C11: at every date at which some ticker has a score, the selection is
\* non-empty and at least one share of a selected ticker is bought.
C11_CapitalAplicado ==
    [][(mes' = mes + 1 /\ DOMAIN pontuacoes' # {}) =>
           /\ selecionados' # {}
           /\ \E t \in selecionados' : carteira'[t] > carteira[t]]_vars

\* the price of ticker t on the rebalance date itself: the first row of the
\* window served at the last date
PrecoNaData(t) == mercado[mes].janelas[t][1]

\* C12: the price used for a selected ticker is its price at the rebalance
\* date (when that is known), never a later one.
C12_SemOlharAdiante ==
    mes > 0 =>
        \A t \in selecionados : ~IsNaN(PrecoNaData(t)) => precos[t] = PrecoNaData(t)

\* the prices pr with 0 in place of every missing price
SemPreco0(pr) == [t \in DOMAIN pr |-> IF IsNaN(pr[t]) THEN Num(0) ELSE pr[t]]

\* C13: when a selected ticker has no price at a date, its holdings are
\* unchanged, the run does not fail, and the other selected tickers are
\* bought as they are when the missing ticker counts for nothing.
C13_SemPrecoPulaAtivo ==
    [][(mes' = mes + 1 /\ \E t \in selecionados' : IsNaN(precos'[t])) =>
           /\ pc' # "erro"
           /\ \A t \in selecionados' : IsNaN(precos'[t]) => carteira'[t] = carteira[t]
           /\ carteira' = Comprar(selecionados', Ultimo(historico_pesos'), carteira,
                                  SemPreco0(precos'))]_vars

\* the tickers held
Detidos == {t \in Tickers : carteira[t] > 0}

\* C14: the value recorded at a date is the sum, over every ticker held
\* (selected at that date or not), of shares held x the ticker's price of
\* the date.
C14_PatrimonioDeTodosOsDetidos ==
    mes > 0 =>
        Ultimo(valor_carteira) =
            Soma(Detidos, [t \in Detidos |->
                              RMul(Num(carteira[t]), UltimoPreco(mercado[mes].janelas[t]))])

\* C15: at every date the benchmark units grow by floor(contribution /
\* price) (by 0 when the price is not positive) and never decrease, and the
\* value recorded is the units held x the price of the date.
C15_Benchmark ==
    [][mes' = mes + 1 =>
           LET p == preco_ibov'
               q == ibov_qtd' - ibov_qtd
           IN  /\ p = Ultimo(mercado').ibov
               /\ q >= 0
               /\ RGt(p, Num(0)) =>
                      /\ RLe(RMul(Num(q), p), Num(valor_aporte))
                      /\ RGt(RMul(Num(q + 1), p), Num(valor_aporte))
               /\ ~RGt(p, Num(0)) => q = 0
               /\ Ultimo(ibov_patrimonio') = RMul(Num(ibov_qtd'), p)]_vars

\* units bought at 10, then at 30; and units kept at a date without a price
C15_Witness ==
    /\ mes = 2
    /\ \/ mercado[1].ibov = Num(10) /\ mercado[2].ibov = Num(30) /\ ibov_qtd = 133
       \/ mercado[1].ibov = Num(30) /\ IsNaN(mercado[2].ibov) /\ ibov_qtd = 33

\* C22: the run never fails, and once it has completed the two series hold
\* one entry per rebalance date, each date having been processed once.
C22_TerminaNormalmente ==
    /\ pc # "erro"
    /\ Len(valor_carteira) = mes
    /\ Len(ibov_patrimonio) = mes
    /\ pc = "fim" => mes = n_datas

\* the tickers bought at the date being processed
Comprados == {t \in Tickers : carteira'[t] > carteira[t]}

\* C26: at every date the cash spent on purchases (shares bought x price,
\* summed over the tickers) is at most the month's contribution.
C26_GastoNoMaximoAporte ==
    [][mes' = mes + 1 =>
           RLe(Soma(Comprados,
                    [t \in Comprados |-> RMul(Num(carteira'[t] - carteira[t]), precos'[t])]),
               Num(valor_aporte))]_vars

\* C29: when selected ticker A scores at least as much as selected ticker
\* B, A's target weight is at least B's.
C29_PesosSeguemPontuacao ==
    mes > 0 =>
        \A a \in selecionados, b \in selecionados :
            RGe(pontuacoes[a], pontuacoes[b]) => RGe(PesosAtuais[a], PesosAtuais[b])

\* what ticker t lacks to reach its target at the date being processed:
\* weight x (value of the selected holdings + contribution) - value held
Falta(t) ==
    LET sel == selecionados'
        w == Ultimo(historico_pesos')
        total == RAdd(Soma(sel, [u \in sel |-> RMul(Num(carteira[u]), precos'[u])]),
                      Num(valor_aporte))
    IN  RSub(RMul(w[t], total), RMul(Num(carteira[t]), precos'[t]))

\* C30: a date leaves the holdings of every ticker that is not selected
\* unchanged, and those of a selected ticker whose price is not positive or
\* whose required buy is less than the price of one share.
C30_SemCompraSemMudanca ==
    [][mes' = mes + 1 =>
           /\ \A t \in Tickers \ selecionados' : carteira'[t] = carteira[t]
           /\ \A t \in selecionados' :
                  (~RGt(precos'[t], Num(0)) \/ RLt(Falta(t), precos'[t])) =>
                      carteira'[t] = carteira[t]]_vars

\* at the second date a ticker held is no longer selected, a selected ticker
\* has the price 0, and another selected ticker is not bought because its
\* share of the contribution is below its price
C30_Witness ==
    /\ mes = 2
    /\ \E t \in Tickers \ selecionados : carteira[t] > 0
    /\ \E t \in selecionados : IsZero(precos[t])
    /\ \E t \in selecionados :
           /\ RGt(precos[t], Num(0))
           /\ carteira[t] = 0
           /\ ~IsNaN(PesosAtuais[t])
           /\ RLt(RMul(PesosAtuais[t], Num(valor_aporte)), precos[t])

-----------------------------------------------------------------------------
(* obter_lista_acoes *)

SemDuplicatas(lista) == \A i, j \in 1..Len(lista) : lista[i] = lista[j] => i = j

\* C23: obter_lista_acoes(limite=n) with n > 0 returns at most n tickers,
\* none of them twice, whichever return statement is taken.
C23_NoMaximoLimiteSemDuplicatas ==
    (pc = "lista_fim" /\ limite # None /\ limite[1] > 0) =>
        (Len(acoes) <= limite[1] /\ SemDuplicatas(acoes))

-----------------------------------------------------------------------------
(* analisar_carteira_para_aporte *)

Analisado == pc \in {"aporte_fim", "aporte_refeito"}
SomaCampo(rec, campo) == Soma(DOMAIN rec, [t \in DOMAIN rec |-> rec[t][campo]])

\* C24: analisar_carteira_para_aporte always suggests stocks: whenever the
\* ranking is not empty, the call returns and its 'recomendacoes' is not empty.
C24_SempreSugere ==
    (Analisado /\ resultados # << >>) =>
        (~analise.raised /\ DOMAIN analise.recomendacoes # {})

\* C28: whenever the returned 'recomendacoes' is not empty, its 'Valor'
\* amounts add up to the contribution and its 'Percentual' values to 100.
C28_SomaAporte ==
    (Analisado /\ ~analise.raised /\ DOMAIN analise.recomendacoes # {}) =>
        /\ REq(SomaCampo(analise.recomendacoes, "Valor"), Num(aporte_padrao))
        /\ REq(SomaCampo(analise.recomendacoes, "Percentual"), Num(100))

\* what a returned analysis says apart from the 'Motivo' lists
SemMotivo(a) ==
    [raised |-> a.raised, carteira_atual |-> a.carteira_atual,
     alocacao_ideal |-> a.alocacao_ideal, diferencas |-> a.diferencas,
     recomendacoes |->
        [t \in DOMAIN a.recomendacoes |->
            [Valor |-> a.recomendacoes[t].Valor,
             Percentual |-> a.recomendacoes[t].Percentual,
             Categoria |-> a.recomendacoes[t].Categoria,
             Pontuacao |-> a.recomendacoes[t].Pontuacao]]]

====
